---- MODULE Spec2Model ----
(***************************************************************************)
(* Byte transports of thriftpy/transport.py: TTransportBase.readAll,       *)
(* TBufferedTransport over an inner transport, and TSocket over an         *)
(* operating-system socket.                                                *)
(*                                                                         *)
(* Bytes are numbered: the n-th byte a source delivers is the number n,    *)
(* and the n-th byte a caller writes is the number n, so that a lost,      *)
(* repeated or reordered byte is visible in every sequence.                *)
(***************************************************************************)
EXTENDS Integers, Sequences, FiniteSets, TLC

\* ------------------------------------------------------------------ bounds
\* Number of bytes the peer delivers before its stream ends.
MaxStream == 4
\* Largest size argument of read(sz).
MaxSz == 2
\* Largest size argument of readAll(sz).
MaxAll == 4
\* Largest read block size (rbuf_size) a TBufferedTransport is built with.
MaxBlock == 2
\* Largest buffer handed to one write(buf) call.
MaxWrite == 2
\* Number of bytes a caller writes in one behaviour.
MaxOut == 3
\* Largest buffer handed to one TSocket.write(buff) call.
MaxSend == 3
\* Largest number of bytes asked of one cstringio_refill call.
MaxReq == 3
\* Largest number of candidates address resolution returns.
MaxCand == 2
\* Number of sockets a TSocket creates in one behaviour.
MaxSocks == 2

\* --------------------------------------------------------------- helpers
Min(a, b) == IF a < b THEN a ELSE b
Max(a, b) == IF a > b THEN a ELSE b
Take(s, n) == SubSeq(s, 1, Min(n, Len(s)))
Drop(s, n) == SubSeq(s, Min(n, Len(s)) + 1, Len(s))
\* The bytes numbered from+1 .. from+n.
Bytes(from, n) == [i \in 1..n |-> from + i]

\* -------------------------------------------------------------- exceptions
UNKNOWN == 0
NOT_OPEN == 1
ALREADY_OPEN == 2
TIMED_OUT == 3
END_OF_FILE == 4

\* A message is the tuple of its format string and the values formatted into it.
NoExc == [cls |-> "none", type |-> UNKNOWN, message |-> <<>>]
EOFError == [cls |-> "EOFError", type |-> UNKNOWN, message |-> <<>>]
TTransportException(type, message) ==
    [cls |-> "TTransportException", type |-> type, message |-> message]
\* An error raised by the layer below (the wrapped transport or the socket).
LowerError(name) == [cls |-> "lower", type |-> UNKNOWN, message |-> <<name>>]

VARIABLES
    peer,       \* bytes the source below has not delivered yet
    lastCall,   \* the most recent call on the transport under test and its outcome
    rbuf_size,  \* TBufferedTransport.__rbuf_size
    rbuf,       \* TBufferedTransport.__rbuf: [data, pos] (a BytesIO and its cursor)
    wbuf,       \* TBufferedTransport.__wbuf (a BytesIO only ever appended to)
    handed,     \* every byte passed to the inner transport's write, in call order
    wcount,     \* history: number of bytes the caller has written so far
    pending,    \* history: bytes the caller wrote since the last flush() call
    lost,       \* history: payloads of the flush() calls that raised, in order
    pulled,     \* history: bytes the inner transport's read calls returned, in order
    delivered,  \* history: bytes read(sz) returned to the caller, in order
    platform,   \* sys.platform, as its characters
    unix_socket,\* TSocket._unix_socket: None or a path
    handle,     \* TSocket.handle: None or a socket (its index in socks)
    socks,      \* every socket the TSocket created: [connected, closed], closed
                \* telling whether the transport has called close() on it
    linkUp      \* history: the latest open() connected and no close() came after

\* The fields of a TBufferedTransport, the inner transport's log and histories.
bufVars == <<rbuf_size, rbuf, wbuf, handed, wcount, pending, lost, pulled,
             delivered>>
\* The fields of a TSocket, its sockets and its history.
sockVars == <<platform, unix_socket, handle, socks, linkUp>>
vars == <<peer, lastCall, bufVars, sockVars>>

\* An optional value: None, or the tuple of the one value present.
None == <<>>
Some(x) == <<x>>

\* A call on the transport under test: its arguments, its outcome and the calls
\* it made on the layer below, in order. Of an open(), buf is what address
\* resolution returned (for each candidate in order, whether it accepts a
\* connection) and ret the error address resolution raised, if any.
Call(op, sz, buf, exc, ret, calls) ==
    [op |-> op, sz |-> sz, buf |-> buf, exc |-> exc, ret |-> ret, calls |-> calls]
\* One call made on the layer below.
Sub(op, sz, buf, exc, ret) ==
    [op |-> op, sz |-> sz, buf |-> buf, exc |-> exc, ret |-> ret]

\* ------------------------------------------------- the source below: read
\* What one read(k) of the underlying source can do: return up to k of the
\* bytes it still has (none at all is an empty result), or raise.
LowerRead(k, stream) ==
    { [exc |-> NoExc, chunk |-> Take(stream, n), stream |-> Drop(stream, n)]
        : n \in 0..Min(k, Len(stream)) }
    \cup { [exc |-> LowerError("read"), chunk |-> <<>>, stream |-> stream] }

\* ---------------------------------------------- TTransportBase.readAll
\* line 17: the size asked of read
readAllAskMut(sz, have) == sz
readAllAsk(sz, have) == sz - have

\* lines 21-22: an empty chunk raises EOFError (nothing is returned)
readAllEmptyMut(buff, stream, calls) ==
    [exc |-> NoExc, ret |-> buff, stream |-> stream, calls |-> calls]
readAllEmpty(buff, stream, calls) ==
    [exc |-> EOFError, ret |-> <<>>, stream |-> stream, calls |-> calls]

\* lines 16-24: the loop, for every behaviour of the reads it makes
RECURSIVE readAllLoop(_, _, _, _, _)
readAllLoop(sz, have, buff, stream, calls) ==
    IF have < sz
    THEN UNION {
            LET ask == readAllAsk(sz, have)
                calls2 == Append(calls, Sub("read", ask, <<>>, o.exc, o.chunk))
            IN  IF o.exc # NoExc
                THEN {[exc |-> o.exc, ret |-> <<>>, stream |-> o.stream,
                       calls |-> calls2]}
                ELSE IF Len(o.chunk) = 0
                THEN {readAllEmpty(buff \o o.chunk, o.stream, calls2)}
                ELSE readAllLoop(sz, have + Len(o.chunk), buff \o o.chunk,
                                 o.stream, calls2)
            : o \in LowerRead(readAllAsk(sz, have), stream) }
    ELSE {[exc |-> NoExc, ret |-> buff, stream |-> stream, calls |-> calls]}

\* lines 13-15
readAll(sz, stream) == readAllLoop(sz, 0, <<>>, stream, <<>>)

\* ------------------------------------------ the inner transport: write, flush
\* What one write(buf) or flush() of the inner transport can do: succeed or raise.
LowerWrite(buf) == {NoExc, LowerError("write")}
LowerFlush == {NoExc, LowerError("flush")}

\* ---------------------------------------------------------------- BytesIO
BytesIO(data) == [data |-> data, pos |-> 0]
\* BytesIO.read(sz), sz >= 0: up to sz bytes from the cursor, which advances.
BytesIO_read(io, sz) ==
    LET end == Min(io.pos + sz, Len(io.data))
    IN  [ret |-> SubSeq(io.data, io.pos + 1, end), io |-> [io EXCEPT !.pos = end]]
\* The bytes after the cursor.
Unread(io) == SubSeq(io.data, io.pos + 1, Len(io.data))

\* ------------------------------------------------ TBufferedTransport.read
\* line 69: the size asked of the inner transport
readAheadAsk(sz, bs) == Max(sz, bs)

\* lines 66-67: the buffer served the call
readServed(ret, sz) == Len(ret) # 0

\* lines 64-70, for every behaviour of the inner read: the result, the read
\* buffer and the inner stream afterwards, and the inner calls made
TBufferedTransport_read(sz, rb, bs, stream) ==
    LET first == BytesIO_read(rb, sz)
    IN  IF readServed(first.ret, sz)
        THEN {[exc |-> NoExc, ret |-> first.ret, rbuf |-> first.io,
               stream |-> stream, calls |-> <<>>]}
        ELSE { LET call == Sub("read", readAheadAsk(sz, bs), <<>>, o.exc, o.chunk)
                   fresh == BytesIO_read(BytesIO(o.chunk), sz)
               IN  IF o.exc # NoExc
                   THEN [exc |-> o.exc, ret |-> <<>>, rbuf |-> first.io,
                         stream |-> o.stream, calls |-> <<call>>]
                   ELSE [exc |-> NoExc, ret |-> fresh.ret, rbuf |-> fresh.io,
                         stream |-> o.stream, calls |-> <<call>>]
               : o \in LowerRead(readAheadAsk(sz, bs), stream) }

\* ------------------------------------- TBufferedTransport.cstringio_refill
\* line 91 without its condition: the read is always tried
refillTriesReadMut(reqlen, bs) == TRUE
\* line 91: the read of a whole block is tried
refillTriesRead(reqlen, bs) == reqlen < bs

\* line 96 appending to the buffer in place of replacing it
refillBufferMut(old, retstring) ==
    [data |-> old.data \o retstring, pos |-> old.pos]
\* line 96: the buffer installed
refillBuffer(old, retstring) == BytesIO(retstring)

\* lines 91-92, for every behaviour of the inner read: the bytes got, the
\* inner stream afterwards and the inner call made, if any
refillRead(reqlen, bs, stream) ==
    IF refillTriesRead(reqlen, bs)
    THEN { [exc |-> o.exc, got |-> o.chunk, stream |-> o.stream,
            calls |-> <<Sub("read", bs, <<>>, o.exc, o.chunk)>>]
             : o \in LowerRead(bs, stream) }
    ELSE {[exc |-> NoExc, got |-> <<>>, stream |-> stream, calls |-> <<>>]}

\* lines 86-97, for every behaviour of the inner read and readAll: the buffer
\* returned, the read buffer and the inner stream afterwards, and the inner
\* calls made (the reads a readAll makes are not listed)
cstringio_refill(partialread, reqlen, rb, bs, stream) ==
    UNION {
        LET retstring == partialread \o f.got
        IN  IF f.exc # NoExc
            THEN {[exc |-> f.exc, ret |-> None, rbuf |-> rb, stream |-> f.stream,
                   calls |-> f.calls]}
            ELSE IF Len(retstring) < reqlen
            THEN { LET call == Sub("readAll", reqlen - Len(retstring), <<>>,
                                   a.exc, a.ret)
                       new == refillBuffer(rb, retstring \o a.ret)
                   IN  IF a.exc # NoExc
                       THEN [exc |-> a.exc, ret |-> None, rbuf |-> rb,
                             stream |-> a.stream, calls |-> Append(f.calls, call)]
                       ELSE [exc |-> NoExc, ret |-> Some(new), rbuf |-> new,
                             stream |-> a.stream, calls |-> Append(f.calls, call)]
                   : a \in readAll(reqlen - Len(retstring), f.stream) }
            ELSE {[exc |-> NoExc, ret |-> Some(refillBuffer(rb, retstring)),
                   rbuf |-> refillBuffer(rb, retstring), stream |-> f.stream,
                   calls |-> f.calls]}
        : f \in refillRead(reqlen, bs, stream) }

\* ----------------------------------------------- TBufferedTransport.write
\* line 73
TBufferedTransport_write(wb, buf) == wb \o buf

\* ----------------------------------------------- TBufferedTransport.flush
\* The calls flush makes for payload out when the inner write ends w and the
\* inner flush, if reached, ends f (lines 79-80).
FlushCalls(out, w, f) ==
    IF w # NoExc
    THEN <<Sub("write", 0, out, w, <<>>)>>
    ELSE <<Sub("write", 0, out, w, <<>>), Sub("flush", 0, <<>>, f, <<>>)>>
FlushExc(w, f) == IF w # NoExc THEN w ELSE f

\* line 78 forgotten: the write buffer is never reset
TBufferedTransport_flushNoReset(wb) ==
    { [exc |-> FlushExc(w, f), wbuf |-> wb, calls |-> FlushCalls(wb, w, f)]
        : w \in LowerWrite(wb), f \in LowerFlush }
\* line 78 moved after line 80: the write buffer is reset once the send succeeded
TBufferedTransport_flushResetLate(wb) ==
    { [exc |-> FlushExc(w, f),
       wbuf |-> IF FlushExc(w, f) = NoExc THEN <<>> ELSE wb,
       calls |-> FlushCalls(wb, w, f)]
        : w \in LowerWrite(wb), f \in LowerFlush }
\* lines 75-80, for every behaviour of the inner write and flush: the result,
\* the write buffer afterwards and the inner calls made
TBufferedTransport_flush(wb) ==
    { [exc |-> FlushExc(w, f), wbuf |-> <<>>, calls |-> FlushCalls(wb, w, f)]
        : w \in LowerWrite(wb), f \in LowerFlush }

\* The payloads of the write calls among calls, concatenated in call order.
RECURSIVE WritePayload(_)
WritePayload(calls) ==
    IF calls = <<>> THEN <<>>
    ELSE (IF Head(calls).op = "write" THEN Head(calls).buf ELSE <<>>)
         \o WritePayload(Tail(calls))
\* The chunks the read calls among calls returned, concatenated in call order.
RECURSIVE ReadChunks(_)
ReadChunks(calls) ==
    IF calls = <<>> THEN <<>>
    ELSE (IF Head(calls).op = "read" THEN Head(calls).ret ELSE <<>>)
         \o ReadChunks(Tail(calls))

\* ---------------------------------------------------------------- TSocket
\* line 123: the defaults of host and port
Host == "localhost"
Port == 9090
UnixPath == "/tmp/x.sock"

\* sys.platform values, as their characters
linux == <<"l", "i", "n", "u", "x">>
darwin == <<"d", "a", "r", "w", "i", "n">>
freebsd == <<"f", "r", "e", "e", "b", "s", "d">>
freebsd13 == freebsd \o <<"1", "3">>
Platforms == {linux, darwin, freebsd13}
\* str.startswith
startswith(str, prefix) ==
    Len(str) >= Len(prefix) /\ SubSeq(str, 1, Len(prefix)) = prefix

\* A socket.error with its errno (e.args[0]).
SocketError(errno) ==
    [cls |-> "socket.error", type |-> UNKNOWN, message |-> <<errno>>]
\* Calling a method of None.
AttributeError == [cls |-> "AttributeError", type |-> UNKNOWN, message |-> <<>>]

\* lines 140-141
TSocket_isOpen(h) == h # None

\* lines 114-117 without line 117: the handle is kept
TSocketBase_closeKeepsHandle(h, ss) ==
    IF h # None
    THEN [handle |-> h, socks |-> [ss EXCEPT ![h[1]].closed = TRUE],
          calls |-> <<Sub("close", h[1], <<>>, NoExc, <<>>)>>]
    ELSE [handle |-> h, socks |-> ss, calls |-> <<>>]
\* lines 114-117: the handle and the sockets after close(), and the close calls
\* made on sockets (sz: the socket's index in socks)
TSocketBase_close(h, ss) ==
    IF h # None
    THEN [handle |-> None, socks |-> [ss EXCEPT ![h[1]].closed = TRUE],
          calls |-> <<Sub("close", h[1], <<>>, NoExc, <<>>)>>]
    ELSE [handle |-> h, socks |-> ss, calls |-> <<>>]

\* lines 101-112: what address resolution can give. A Unix path is the one
\* candidate; getaddrinfo raises or returns at least one candidate. Each
\* candidate carries whether a connect to it will succeed.
Candidate(family, addr, ok) == [family |-> family, addr |-> addr, ok |-> ok]
resolveAddr(unix) ==
    IF unix # None
    THEN { [exc |-> NoExc, res0 |-> <<Candidate("AF_UNIX", <<unix[1]>>, ok)>>]
             : ok \in BOOLEAN }
    ELSE { [exc |-> SocketError("EAI_NONAME"), res0 |-> <<>>] }
         \cup UNION { { [exc |-> NoExc,
                         res0 |-> [i \in 1..n |->
                                     Candidate("AF_INET", <<Host, Port>>, oks[i])]]
                          : oks \in [1..n -> BOOLEAN] } : n \in 1..MaxCand }

\* lines 166-172: the failure open() raises
NotOpenError(unix) ==
    TTransportException(NOT_OPEN,
        IF unix # None
        THEN <<"Could not connect to socket %s", unix[1]>>
        ELSE <<"Could not connect to %s:%d", Host, Port>>)

\* line 161: the candidate that failed is not the last one
notLastMut(i, res0) == FALSE
notLast(i, res0) == i # Len(res0)

\* lines 155-165 without the break of line 165: the loop goes on after a
\* connect that succeeded
RECURSIVE openLoopNoBreak(_, _, _, _, _)
openLoopNoBreak(i, res0, h, ss, calls) ==
    IF i > Len(res0)
    THEN [exc |-> NoExc, handle |-> h, socks |-> ss, calls |-> calls]
    ELSE LET ss2 == Append(ss, [connected |-> res0[i].ok, closed |-> FALSE])
             h2 == Some(Len(ss2))
             e == IF res0[i].ok THEN NoExc ELSE SocketError("ECONNREFUSED")
             calls2 == Append(calls, Sub("connect", i, <<>>, e, <<>>))
         IN  IF e = NoExc \/ notLast(i, res0)
             THEN openLoopNoBreak(i + 1, res0, h2, ss2, calls2)
             ELSE [exc |-> e, handle |-> h2, socks |-> ss2, calls |-> calls2]

\* lines 155-165: the loop over the candidates, from the i-th on; the exception
\* is the socket.error that leaves the loop, if any
RECURSIVE openLoop(_, _, _, _, _)
openLoop(i, res0, h, ss, calls) ==
    IF i > Len(res0)
    THEN [exc |-> NoExc, handle |-> h, socks |-> ss, calls |-> calls]
    ELSE LET ss2 == Append(ss, [connected |-> res0[i].ok, closed |-> FALSE])
             h2 == Some(Len(ss2))
             e == IF res0[i].ok THEN NoExc ELSE SocketError("ECONNREFUSED")
             calls2 == Append(calls, Sub("connect", i, <<>>, e, <<>>))
         IN  IF e = NoExc
             THEN [exc |-> NoExc, handle |-> h2, socks |-> ss2, calls |-> calls2]
             ELSE IF notLast(i, res0)
             THEN openLoop(i + 1, res0, h2, ss2, calls2)
             ELSE [exc |-> e, handle |-> h2, socks |-> ss2, calls |-> calls2]

\* lines 152-172, for the resolution outcome r: the result, the handle and the
\* sockets afterwards, and the connect calls made (sz: the candidate's index)
TSocket_open(h, ss, unix, r) ==
    LET o == IF r.exc # NoExc
             THEN [exc |-> r.exc, handle |-> h, socks |-> ss, calls |-> <<>>]
             ELSE openLoop(1, r.res0, h, ss, <<>>)
    IN  IF o.exc # NoExc THEN [o EXCEPT !.exc = NotOpenError(unix)] ELSE o

\* What recv(sz) on socket sk can do: on a connected socket return up to sz of
\* the peer's bytes (none at all: the peer has shut down), or fail.
Recv(sk, sz, stream) ==
    IF ~sk.connected
    THEN {[exc |-> SocketError("ENOTCONN"), data |-> <<>>, stream |-> stream]}
    ELSE { [exc |-> NoExc, data |-> Take(stream, n), stream |-> Drop(stream, n)]
             : n \in 0..Min(sz, Len(stream)) }
         \cup { [exc |-> SocketError(e), data |-> <<>>, stream |-> stream]
                  : e \in {"ECONNRESET", "ETIMEDOUT"} }

\* lines 178-180 without the platform test
resetIsEofMut(e, plat) == e.message[1] = "ECONNRESET"
\* lines 178-180: the error that is read as the peer's shutdown
resetIsEof(e, plat) ==
    /\ e.message[1] = "ECONNRESET"
    /\ (plat = darwin \/ startswith(plat, freebsd))

\* line 185 left out: the handle stays as it is
readResetCloseMut(h, ss) == [handle |-> h, socks |-> ss, calls |-> <<>>]
\* line 185: the reset that is read as the peer's shutdown closes the transport
readResetClose(h, ss) == TSocketBase_close(h, ss)

\* line 190
readIsEofMut(buff) == FALSE
readIsEof(buff) == Len(buff) = 0

\* lines 174-193, for every behaviour of recv: the result, the handle, the
\* sockets and the peer's stream afterwards, and the recv call made
TSocket_read(sz, h, ss, plat, stream) ==
    IF h = None
    THEN {[exc |-> AttributeError, ret |-> <<>>, handle |-> h, socks |-> ss,
           stream |-> stream, calls |-> <<>>]}
    ELSE { LET call == Sub("recv", sz, <<>>, o.exc, o.data)
               reset == o.exc # NoExc /\ resetIsEof(o.exc, plat)
               after == IF reset THEN readResetClose(h, ss)
                        ELSE [handle |-> h, socks |-> ss]
               buff == IF reset THEN <<>> ELSE o.data
           IN  IF o.exc # NoExc /\ ~reset
               THEN [exc |-> o.exc, ret |-> <<>>, handle |-> h, socks |-> ss,
                     stream |-> o.stream, calls |-> <<call>>]
               ELSE IF readIsEof(buff)
               THEN [exc |-> TTransportException(END_OF_FILE, <<"TSocket read 0 bytes">>),
                     ret |-> <<>>, handle |-> after.handle, socks |-> after.socks,
                     stream |-> o.stream, calls |-> <<call>>]
               ELSE [exc |-> NoExc, ret |-> buff, handle |-> after.handle,
                     socks |-> after.socks, stream |-> o.stream, calls |-> <<call>>]
           : o \in Recv(ss[h[1]], sz, stream) }

\* lines 16-24 with self.read being TSocket.read, for every behaviour of the
\* recv calls: the result, the handle, the sockets and the peer's stream
\* afterwards, and the calls made (each read after the recv it made)
RECURSIVE TSocket_readAllLoop(_, _, _, _, _, _, _, _)
TSocket_readAllLoop(sz, have, buff, h, ss, plat, stream, calls) ==
    IF have < sz
    THEN UNION {
            LET ask == readAllAsk(sz, have)
                calls2 == calls \o o.calls \o <<Sub("read", ask, <<>>, o.exc, o.ret)>>
                empty == readAllEmpty(buff \o o.ret, o.stream, calls2)
            IN  IF o.exc # NoExc
                THEN {[exc |-> o.exc, ret |-> <<>>, handle |-> o.handle,
                       socks |-> o.socks, stream |-> o.stream, calls |-> calls2]}
                ELSE IF Len(o.ret) = 0
                THEN {[exc |-> empty.exc, ret |-> empty.ret, handle |-> o.handle,
                       socks |-> o.socks, stream |-> empty.stream,
                       calls |-> empty.calls]}
                ELSE TSocket_readAllLoop(sz, have + Len(o.ret), buff \o o.ret,
                                         o.handle, o.socks, plat, o.stream, calls2)
            : o \in TSocket_read(readAllAsk(sz, have), h, ss, plat, stream) }
    ELSE {[exc |-> NoExc, ret |-> buff, handle |-> h, socks |-> ss,
           stream |-> stream, calls |-> calls]}

\* lines 13-15, on a TSocket
TSocket_readAll(sz, h, ss, plat, stream) ==
    TSocket_readAllLoop(sz, 0, <<>>, h, ss, plat, stream, <<>>)

\* What send(buff) on socket sk can do: on a connected socket accept some of
\* the bytes (sz: how many), or fail.
Send(sk, buff) ==
    IF ~sk.connected
    THEN {Sub("send", 0, buff, SocketError("ENOTCONN"), <<>>)}
    ELSE { Sub("send", n, buff, NoExc, <<>>) : n \in 0..Len(buff) }
         \cup {Sub("send", 0, buff, SocketError("EPIPE"), <<>>)}

\* line 207: the buffer handed to the next send
sendRestMut(buff, plus) == buff
sendRest(buff, plus) == Drop(buff, plus)

\* lines 203-205: a send that accepted nothing
sendNothing(calls) ==
    [exc |-> TTransportException(END_OF_FILE, <<"TSocket sent 0 bytes">>),
     calls |-> calls]

\* lines 199-207: the loop, for every behaviour of the sends it makes
RECURSIVE writeLoop(_, _, _, _, _)
writeLoop(buff, sent, have, sk, calls) ==
    IF sent < have
    THEN UNION {
            LET calls2 == Append(calls, c)
            IN  IF c.exc # NoExc THEN {[exc |-> c.exc, calls |-> calls2]}
                ELSE IF c.sz = 0 THEN {sendNothing(calls2)}
                ELSE writeLoop(sendRest(buff, c.sz), sent + c.sz, have, sk, calls2)
            : c \in Send(sk, buff) }
    ELSE {[exc |-> NoExc, calls |-> calls]}

\* lines 196-198
NotOpenOnWrite == TTransportException(NOT_OPEN, <<"Transport not open">>)

\* lines 195-207: the results and the send calls made
TSocket_write(buff, h, ss) ==
    IF h = None
    THEN {[exc |-> NotOpenOnWrite, calls |-> <<>>]}
    ELSE writeLoop(buff, 0, Len(buff), ss[h[1]], <<>>)

\* ------------------------- TBufferedTransport.isOpen, open, close on a TSocket
\* lines 55-56: the answer of the inner transport, and the inner call made
TBufferedTransport_isOpen(rb, wb, h) ==
    [exc |-> NoExc, ret |-> Some(TSocket_isOpen(h)), rbuf |-> rb, wbuf |-> wb,
     calls |-> <<Sub("isOpen", 0, <<>>, NoExc, Some(TSocket_isOpen(h)))>>]

\* lines 58-59, for the resolution outcome r of the inner transport
TBufferedTransport_open(rb, wb, h, ss, unix, r) ==
    LET o == TSocket_open(h, ss, unix, r)
    IN  [exc |-> o.exc, ret |-> None, rbuf |-> rb, wbuf |-> wb,
         handle |-> o.handle, socks |-> o.socks,
         calls |-> <<Sub("open", 0, <<>>, o.exc, None)>>]

\* lines 61-62 with a flush() before the inner close
TBufferedTransport_closeFlushes(rb, wb, h, ss) ==
    LET o == TSocketBase_close(h, ss)
    IN  [exc |-> NoExc, ret |-> None, rbuf |-> rb, wbuf |-> <<>>,
         handle |-> o.handle, socks |-> o.socks,
         calls |-> <<Sub("write", 0, wb, NoExc, <<>>),
                     Sub("flush", 0, <<>>, NoExc, <<>>),
                     Sub("close", 0, <<>>, NoExc, None)>>]
\* lines 61-62
TBufferedTransport_close(rb, wb, h, ss) ==
    LET o == TSocketBase_close(h, ss)
    IN  [exc |-> NoExc, ret |-> None, rbuf |-> rb, wbuf |-> wb,
         handle |-> o.handle, socks |-> o.socks,
         calls |-> <<Sub("close", 0, <<>>, NoExc, None)>>]

\* ------------------------------------------------------------------ Init
InitCall == Call("init", 0, <<>>, NoExc, <<>>, <<>>)

\* lines 49-53: a TBufferedTransport built with read block size bs
TBufferedTransport_init(bs) ==
    /\ rbuf_size = bs
    /\ rbuf = BytesIO(<<>>)
    /\ wbuf = <<>>
    /\ handed = <<>>
    /\ wcount = 0
    /\ pending = <<>>
    /\ lost = <<>>
    /\ pulled = <<>>
    /\ delivered = <<>>

\* lines 123-135: a TSocket built for host and port, or for the path unix
TSocket_init(unix) ==
    /\ unix_socket = unix
    /\ handle = None
    /\ socks = <<>>
    /\ linkUp = FALSE

\* A TBufferedTransport over an inner transport, for every read block size.
Init ==
    /\ peer = Bytes(0, MaxStream)
    /\ lastCall = InitCall
    /\ \E bs \in 1..MaxBlock : TBufferedTransport_init(bs)
    /\ platform = linux
    /\ TSocket_init(None)

\* A plain transport whose read() yields the peer's bytes in chunks.
ReadAllInit ==
    /\ peer = Bytes(0, MaxStream)
    /\ lastCall = InitCall
    /\ TBufferedTransport_init(MaxBlock)
    /\ platform = linux
    /\ TSocket_init(None)

\* A TBufferedTransport over a TSocket for a Unix path, with a short stream.
LifecycleInit ==
    /\ peer = Bytes(0, MaxSz)
    /\ lastCall = InitCall
    /\ TBufferedTransport_init(MaxBlock)
    /\ platform = linux
    /\ TSocket_init(Some(UnixPath))

\* A TSocket, for every platform and both kinds of target.
SocketInit ==
    /\ peer = Bytes(0, MaxStream)
    /\ lastCall = InitCall
    /\ TBufferedTransport_init(MaxBlock)
    /\ platform \in Platforms
    /\ \E unix \in {None, Some(UnixPath)} : TSocket_init(unix)

\* ------------------------------------------- readAll on a plain transport
ReadAllCall ==
    \E sz \in 0..MaxAll : \E r \in readAll(sz, peer) :
        /\ peer' = r.stream
        /\ lastCall' = Call("readAll", sz, <<>>, r.exc, r.ret, r.calls)
        /\ UNCHANGED <<bufVars, sockVars>>

ReadAllNext == ReadAllCall

ReadAllSpec == ReadAllInit /\ [][ReadAllNext]_vars

\* ------------------------------------------------- TBufferedTransport calls
BufferedRead ==
    \E sz \in 0..MaxSz : \E r \in TBufferedTransport_read(sz, rbuf, rbuf_size, peer) :
        /\ rbuf' = r.rbuf
        /\ peer' = r.stream
        /\ pulled' = pulled \o ReadChunks(r.calls)
        /\ delivered' = delivered \o r.ret
        /\ lastCall' = Call("read", sz, <<>>, r.exc, r.ret, r.calls)
        /\ UNCHANGED <<rbuf_size, wbuf, handed, wcount, pending, lost, sockVars>>

BufferedWrite ==
    \E n \in 0..MaxWrite :
        /\ wcount + n <= MaxOut
        /\ wbuf' = TBufferedTransport_write(wbuf, Bytes(wcount, n))
        /\ wcount' = wcount + n
        /\ pending' = pending \o Bytes(wcount, n)
        /\ lastCall' = Call("write", 0, Bytes(wcount, n), NoExc, <<>>, <<>>)
        /\ UNCHANGED <<peer, rbuf_size, rbuf, handed, lost, pulled, delivered,
                       sockVars>>

BufferedFlush ==
    \E r \in TBufferedTransport_flush(wbuf) :
        /\ wbuf' = r.wbuf
        /\ handed' = handed \o WritePayload(r.calls)
        /\ lost' = IF r.exc # NoExc THEN lost \o WritePayload(r.calls) ELSE lost
        /\ pending' = <<>>
        /\ lastCall' = Call("flush", 0, <<>>, r.exc, <<>>, r.calls)
        /\ UNCHANGED <<peer, rbuf_size, rbuf, wcount, pulled, delivered, sockVars>>

Next == BufferedRead \/ BufferedWrite \/ BufferedFlush

Spec == Init /\ [][Next]_vars

\* ------------------------ TBufferedTransport over a TSocket: isOpen, open, close
BufferedIsOpen ==
    LET r == TBufferedTransport_isOpen(rbuf, wbuf, handle)
    IN  /\ rbuf' = r.rbuf
        /\ wbuf' = r.wbuf
        /\ handed' = handed \o WritePayload(r.calls)
        /\ lastCall' = Call("isOpen", 0, <<>>, r.exc, r.ret, r.calls)
        /\ UNCHANGED <<peer, rbuf_size, wcount, pending, lost, pulled, delivered,
                       sockVars>>

BufferedOpen ==
    \E a \in resolveAddr(unix_socket) :
        /\ Len(socks) + Len(a.res0) <= MaxSocks
        /\ LET r == TBufferedTransport_open(rbuf, wbuf, handle, socks, unix_socket, a)
           IN  /\ rbuf' = r.rbuf
               /\ wbuf' = r.wbuf
               /\ handed' = handed \o WritePayload(r.calls)
               /\ handle' = r.handle
               /\ socks' = r.socks
               /\ linkUp' = (r.exc = NoExc)
               /\ lastCall' = Call("open", 0, <<>>, r.exc, r.ret, r.calls)
        /\ UNCHANGED <<peer, rbuf_size, wcount, pending, lost, pulled, delivered,
                       platform, unix_socket>>

BufferedClose ==
    LET r == TBufferedTransport_close(rbuf, wbuf, handle, socks)
    IN  /\ rbuf' = r.rbuf
        /\ wbuf' = r.wbuf
        /\ handed' = handed \o WritePayload(r.calls)
        /\ handle' = r.handle
        /\ socks' = r.socks
        /\ linkUp' = FALSE
        /\ lastCall' = Call("close", 0, <<>>, r.exc, r.ret, r.calls)
        /\ UNCHANGED <<peer, rbuf_size, wcount, pending, lost, pulled, delivered,
                       platform, unix_socket>>

LifecycleNext ==
    \/ BufferedRead
    \/ BufferedWrite
    \/ BufferedIsOpen
    \/ BufferedOpen
    \/ BufferedClose

LifecycleSpec == LifecycleInit /\ [][LifecycleNext]_vars

\* --------------------------------------- TBufferedTransport raw-buffer calls
\* The partial reads a decoder can pass: the bytes it took from the read
\* buffer (lines 82-84) from some point to the end.
PartialReads(rb) == {Drop(rb.data, n) : n \in 0..Len(rb.data)}

BufferedRefill ==
    \E partialread \in PartialReads(rbuf) : \E reqlen \in 0..MaxReq :
        \E r \in cstringio_refill(partialread, reqlen, rbuf, rbuf_size, peer) :
            /\ rbuf' = r.rbuf
            /\ peer' = r.stream
            /\ pulled' = pulled \o Take(peer, Len(peer) - Len(r.stream))
            /\ lastCall' = Call("refill", reqlen, partialread, r.exc, r.ret, r.calls)
            /\ UNCHANGED <<rbuf_size, wbuf, handed, wcount, pending, lost,
                           delivered, sockVars>>

\* lines 82-84: a decoder reads sz bytes straight from the read buffer
RawBufferRead ==
    \E sz \in 1..MaxSz :
        LET r == BytesIO_read(rbuf, sz)
        IN  /\ rbuf' = r.io
            /\ lastCall' = Call("cstringio_buf", sz, <<>>, NoExc, r.ret, <<>>)
            /\ UNCHANGED <<peer, rbuf_size, wbuf, handed, wcount, pending, lost,
                           pulled, delivered, sockVars>>

RefillNext == RawBufferRead \/ BufferedRefill

RefillSpec == Init /\ [][RefillNext]_vars

\* ------------------------------------------------------------ TSocket calls
SocketOpen ==
    \E r \in resolveAddr(unix_socket) :
        /\ Len(socks) + Len(r.res0) <= MaxSocks
        /\ LET o == TSocket_open(handle, socks, unix_socket, r)
           IN  /\ handle' = o.handle
               /\ socks' = o.socks
               /\ linkUp' = (o.calls # <<>> /\ o.calls[Len(o.calls)].exc = NoExc)
               /\ lastCall' = Call("open", 0, [i \in DOMAIN r.res0 |-> r.res0[i].ok],
                                    o.exc,
                                    IF r.exc # NoExc THEN Some(r.exc) ELSE None,
                                    o.calls)
        /\ UNCHANGED <<peer, bufVars, platform, unix_socket>>

SocketClose ==
    LET o == TSocketBase_close(handle, socks)
    IN  /\ handle' = o.handle
        /\ socks' = o.socks
        /\ linkUp' = FALSE
        /\ lastCall' = Call("close", 0, <<>>, NoExc, <<>>, o.calls)
        /\ UNCHANGED <<peer, bufVars, platform, unix_socket>>

SocketRead ==
    \E sz \in 0..MaxSz : \E r \in TSocket_read(sz, handle, socks, platform, peer) :
        /\ handle' = r.handle
        /\ socks' = r.socks
        /\ peer' = r.stream
        /\ linkUp' = (linkUp /\ r.handle = handle)
        /\ lastCall' = Call("read", sz, <<>>, r.exc, r.ret, r.calls)
        /\ UNCHANGED <<bufVars, platform, unix_socket>>

SocketReadAll ==
    \E sz \in 0..MaxSz : \E r \in TSocket_readAll(sz, handle, socks, platform, peer) :
        /\ handle' = r.handle
        /\ socks' = r.socks
        /\ peer' = r.stream
        /\ linkUp' = (linkUp /\ r.handle = handle)
        /\ lastCall' = Call("readAll", sz, <<>>, r.exc, r.ret, r.calls)
        /\ UNCHANGED <<bufVars, platform, unix_socket>>

SocketWrite ==
    \E n \in 0..MaxSend : \E r \in TSocket_write(Bytes(0, n), handle, socks) :
        /\ lastCall' = Call("write", 0, Bytes(0, n), r.exc, <<>>, r.calls)
        /\ UNCHANGED <<peer, bufVars, sockVars>>

\* lines 209-210
SocketFlush ==
    /\ lastCall' = Call("flush", 0, <<>>, NoExc, <<>>, <<>>)
    /\ UNCHANGED <<peer, bufVars, sockVars>>

SocketNext ==
    \/ SocketOpen
    \/ SocketClose
    \/ SocketRead
    \/ SocketReadAll
    \/ SocketWrite
    \/ SocketFlush

SocketSpec == SocketInit /\ [][SocketNext]_vars

\* ================================================================= claims
\* The calls among calls that returned normally with at least one byte.
AllChunksNonEmpty(calls) ==
    \A i \in DOMAIN calls : calls[i].exc = NoExc /\ Len(calls[i].ret) > 0
\* The bytes the calls before the i-th returned.
ChunksBefore(calls, i) == ReadChunks(SubSeq(calls, 1, i - 1))

\* C1: when every read yields a non-empty chunk, readAll(n) returns exactly the
\* n bytes of the chunks, concatenated in call order; each read is asked for the
\* number of bytes still missing; readAll(0) makes no read call.
C1_ReadAllReturnsChunksInOrder ==
    (lastCall.op = "readAll" /\ AllChunksNonEmpty(lastCall.calls)) =>
        /\ lastCall.exc = NoExc
        /\ lastCall.ret = ReadChunks(lastCall.calls)
        /\ Len(lastCall.ret) = lastCall.sz
        /\ \A i \in DOMAIN lastCall.calls :
               lastCall.calls[i].sz = lastCall.sz - Len(ChunksBefore(lastCall.calls, i))
        /\ (lastCall.sz = 0 => lastCall.calls = <<>>)

\* readAll(3) that returned after three reads of one byte each.
C1_Witness ==
    /\ lastCall.op = "readAll"
    /\ lastCall.sz = 3
    /\ Len(lastCall.calls) = 3
    /\ lastCall.exc = NoExc
    /\ AllChunksNonEmpty(lastCall.calls)

\* C2: readAll(n) raises the end-of-stream error and returns nothing whenever a
\* read returns an empty result, that read being the last one made; a readAll
\* that returns normally returns n bytes, never fewer.
C2_ReadAllEndOfStream ==
    lastCall.op = "readAll" =>
        /\ \A i \in DOMAIN lastCall.calls :
               (lastCall.calls[i].exc = NoExc /\ lastCall.calls[i].ret = <<>>) =>
                   /\ lastCall.exc = EOFError
                   /\ lastCall.ret = <<>>
                   /\ i = Len(lastCall.calls)
        /\ (lastCall.exc = NoExc => Len(lastCall.ret) = lastCall.sz)

\* readAll(3) that got two bytes and then an empty result.
C2_Witness ==
    /\ lastCall.op = "readAll"
    /\ lastCall.sz = 3
    /\ Len(lastCall.calls) = 2
    /\ Len(lastCall.calls[1].ret) = 2
    /\ lastCall.calls[2].exc = NoExc
    /\ lastCall.calls[2].ret = <<>>
    /\ lastCall.exc = EOFError

\* C3: flush() makes exactly one inner write call, whose payload is every byte
\* written since the previous flush in write order, followed (when that write
\* returns) by exactly one inner flush call; a flush() right after a flush()
\* passes no byte to the inner transport.
C3_FlushForwardsPendingOnce ==
    [][lastCall'.op = "flush" =>
        /\ Len(lastCall'.calls) >= 1
        /\ lastCall'.calls[1].op = "write"
        /\ lastCall'.calls[1].buf = pending
        /\ IF lastCall'.calls[1].exc = NoExc
           THEN Len(lastCall'.calls) = 2 /\ lastCall'.calls[2].op = "flush"
           ELSE Len(lastCall'.calls) = 1
        /\ (lastCall.op = "flush" =>
               \A i \in DOMAIN lastCall'.calls : lastCall'.calls[i].buf = <<>>)
    ]_vars

\* A flush() of two pending bytes that made the inner write and the inner flush.
C3_Witness ==
    /\ lastCall.op = "flush"
    /\ lastCall.exc = NoExc
    /\ Len(lastCall.calls) = 2
    /\ Len(lastCall.calls[1].buf) >= 2
    /\ handed = Bytes(0, Len(handed))

NoByteTwice(s) == \A i, j \in DOMAIN s : i # j => s[i] # s[j]

\* C4: when the inner write or flush raises during flush(), the write buffer is
\* already empty; no byte of a failed payload is passed to the inner transport
\* again, and the write buffer holds exactly the bytes written since the last
\* flush() call, failed or not.
C4_ClearBeforeSend ==
    /\ (lastCall.op = "flush" /\ lastCall.exc # NoExc => wbuf = <<>>)
    /\ NoByteTwice(handed)
    /\ (lastCall.op = "flush" /\ lastCall.exc = NoExc =>
           \A i \in DOMAIN lastCall.calls : \A j \in DOMAIN lost :
               \A k \in DOMAIN lastCall.calls[i].buf :
                   lastCall.calls[i].buf[k] # lost[j])
    /\ wbuf = pending

\* A flush() that forwarded new bytes after an earlier flush() had raised with
\* a non-empty payload.
C4_Witness ==
    /\ lastCall.op = "flush"
    /\ lastCall.exc = NoExc
    /\ lost # <<>>
    /\ lastCall.calls[1].buf # <<>>

\* C5: the bytes read(sz) calls returned are a prefix of the bytes the inner
\* reads returned, in the same order; the read buffer holds exactly the bytes
\* pulled and not yet returned; a read(sz) returns at most sz bytes.
C5_ReadsDeliverPulledBytes ==
    /\ delivered = Take(pulled, Len(delivered))
    /\ delivered \o Unread(rbuf) = pulled
    /\ (lastCall.op = "read" => Len(lastCall.ret) <= lastCall.sz)

\* C6: read(k) calls the inner transport only when the read buffer holds no
\* unread byte; with at least k unread bytes (k >= 1) it makes no inner call and
\* returns the next k; with nothing buffered read(k) makes exactly one inner
\* read call, for max(k, rbuf_size) bytes.
C6_InnerReadOnlyWhenEmpty ==
    [][lastCall'.op = "read" =>
        /\ (lastCall'.calls # <<>> => Unread(rbuf) = <<>>)
        /\ (lastCall'.sz >= 1 /\ Len(Unread(rbuf)) >= lastCall'.sz =>
               /\ lastCall'.calls = <<>>
               /\ lastCall'.ret = Take(Unread(rbuf), lastCall'.sz))
        /\ (Unread(rbuf) = <<>> =>
               /\ Len(lastCall'.calls) = 1
               /\ lastCall'.calls[1].op = "read"
               /\ lastCall'.calls[1].sz = Max(lastCall'.sz, rbuf_size))
    ]_vars

\* The number of bytes the sends among calls accepted.
RECURSIVE SumAccepted(_)
SumAccepted(calls) ==
    IF calls = <<>> THEN 0 ELSE Head(calls).sz + SumAccepted(Tail(calls))

\* C7: TSocket.write(buf) with a handle gives each send exactly the suffix of
\* buf not yet accepted, never an empty one; it returns once the accepted counts
\* sum to len(buf) (so a socket accepting at most cap bytes per send takes
\* ceil(len(buf) / cap) sends), and it raises EndOfFile at the first send that
\* accepts nothing, which is the last send made.
C7_WriteSendsRemainingSuffix ==
    (lastCall.op = "write" /\ handle # None) =>
        LET cs == lastCall.calls
            buf == lastCall.buf
        IN  /\ \A i \in DOMAIN cs :
                   /\ cs[i].buf = Drop(buf, SumAccepted(SubSeq(cs, 1, i - 1)))
                   /\ cs[i].buf # <<>>
            /\ \A i \in DOMAIN cs :
                   (cs[i].exc = NoExc /\ cs[i].sz = 0) =>
                       /\ lastCall.exc.cls = "TTransportException"
                       /\ lastCall.exc.type = END_OF_FILE
                       /\ i = Len(cs)
            /\ (\A i \in DOMAIN cs : cs[i].exc = NoExc /\ cs[i].sz > 0) =>
                   lastCall.exc = NoExc
            /\ (lastCall.exc = NoExc => SumAccepted(cs) = Len(buf))
            /\ \A cap \in 1..MaxSend :
                   (\A i \in DOMAIN cs :
                        cs[i].exc = NoExc /\ cs[i].sz = Min(cap, Len(cs[i].buf))) =>
                       /\ Len(cs) * cap >= Len(buf)
                       /\ (Len(cs) - 1) * cap < Len(buf)

\* A write of three bytes over a socket that accepts at most two per send:
\* two sends, of two bytes and of one.
C7_Witness ==
    /\ lastCall.op = "write"
    /\ handle # None
    /\ Len(lastCall.buf) = 3
    /\ lastCall.exc = NoExc
    /\ Len(lastCall.calls) = 2
    /\ lastCall.calls[1].sz = 2
    /\ lastCall.calls[2].sz = 1

\* C8: write(buf) raises NotOpen and makes no send call whenever the transport
\* is not open: before any open(), after close(), after an open() that failed.
C8_WriteNotOpenUnlessOpen ==
    [][(lastCall'.op = "write" /\ ~linkUp) =>
        /\ lastCall'.exc = NotOpenOnWrite
        /\ lastCall'.calls = <<>>
    ]_vars

\* C9: TSocket.read(sz) never returns an empty result: when recv yields no
\* byte, or fails with a connection reset on a platform where that is read as
\* the peer's shutdown, read raises a TTransportException of type END_OF_FILE
\* that carries a message; a read that returns, returns 1..sz bytes.
C9_ReadNeverReturnsEmpty ==
    lastCall.op = "read" =>
        /\ (lastCall.exc = NoExc =>
               Len(lastCall.ret) >= 1 /\ Len(lastCall.ret) <= lastCall.sz)
        /\ \A i \in DOMAIN lastCall.calls :
               (\/ (lastCall.calls[i].exc = NoExc /\ lastCall.calls[i].ret = <<>>)
                \/ (/\ lastCall.calls[i].exc = SocketError("ECONNRESET")
                    /\ (platform = darwin \/ startswith(platform, freebsd)))) =>
                   /\ lastCall.exc.cls = "TTransportException"
                   /\ lastCall.exc.type = END_OF_FILE
                   /\ lastCall.exc.message # <<>>

\* A read(2) on a connected socket whose recv returned no byte.
C9_Witness ==
    /\ lastCall.op = "read"
    /\ lastCall.sz = 2
    /\ Len(lastCall.calls) = 1
    /\ lastCall.calls[1].exc = NoExc
    /\ lastCall.calls[1].ret = <<>>
    /\ lastCall.exc.type = END_OF_FILE

\* C10: the handle is present (isOpen() is true) only while the transport is
\* open: the latest open() connected and no close() has happened since.
C10_HandleOnlyWhileOpen == TSocket_isOpen(handle) => linkUp

\* The index of the first candidate that accepts a connection; 0 when none does.
FirstReachable(oks) ==
    IF \E i \in DOMAIN oks : oks[i]
    THEN CHOOSE i \in DOMAIN oks : oks[i] /\ \A j \in 1..(i - 1) : ~oks[j]
    ELSE 0

\* C11: open() tries the resolved candidates in resolver order, one socket and
\* one connect per candidate, and stops at the first that connects: the handle
\* is then the socket made for that candidate and no later candidate is tried;
\* every connect before it failed (N-1 of them when only the last of N accepts).
C11_OpenTriesCandidatesInOrder ==
    [][(lastCall'.op = "open" /\ lastCall'.ret = None) =>
        LET oks == lastCall'.buf
            cs == lastCall'.calls
            first == FirstReachable(oks)
            tried == IF first = 0 THEN Len(oks) ELSE first
        IN  /\ Len(cs) = tried
            /\ \A i \in DOMAIN cs :
                   /\ cs[i].op = "connect"
                   /\ cs[i].sz = i
                   /\ (cs[i].exc = NoExc <=> i = first)
            /\ Len(socks') = Len(socks) + tried
            /\ first # 0 =>
                   /\ lastCall'.exc = NoExc
                   /\ handle' = Some(Len(socks) + first)
                   /\ socks'[Len(socks) + first].connected]_vars

\* open() over two candidates of which only the second accepts: it returned
\* after one failed connect, on the second socket.
C11_Witness ==
    /\ lastCall.op = "open"
    /\ lastCall.buf = <<FALSE, TRUE>>
    /\ Len(lastCall.calls) = 2
    /\ lastCall.calls[1].exc # NoExc
    /\ lastCall.exc = NoExc
    /\ handle = Some(Len(socks))

\* C12: open() raises exactly when address resolution raised or no resolved
\* candidate accepts a connection; what it raises is TTransportException
\* NOT_OPEN whose message names the Unix path, or the host and the port; a
\* failed connect to a candidate before a reachable one is not raised; after
\* an open() that returned, isOpen() is true.
C12_OpenFailsIffNoCandidateReachable ==
    lastCall.op = "open" =>
        LET noneReachable ==
                \/ lastCall.ret # None
                \/ \A i \in DOMAIN lastCall.buf : ~lastCall.buf[i]
            e == lastCall.exc
        IN  /\ (e # NoExc) <=> noneReachable
            /\ e # NoExc =>
                   /\ e.cls = "TTransportException"
                   /\ e.type = NOT_OPEN
                   /\ IF unix_socket # None
                      THEN Len(e.message) = 2 /\ e.message[2] = unix_socket[1]
                      ELSE /\ Len(e.message) = 3
                           /\ e.message[2] = Host
                           /\ e.message[3] = Port
            /\ e = NoExc => TSocket_isOpen(handle)

\* open() over two candidates that both refuse: NOT_OPEN after two connects.
C12_Witness ==
    /\ lastCall.op = "open"
    /\ lastCall.buf = <<FALSE, FALSE>>
    /\ Len(lastCall.calls) = 2
    /\ lastCall.exc # NoExc
    /\ lastCall.exc.type = NOT_OPEN

\* C13: after close() the handle is None and isOpen() is false; close() on a
\* transport that holds a socket closes that socket, which was not closed
\* before, once; close() on a transport that holds none (never opened, or
\* closed already) calls nothing and changes no socket.
C13_CloseIsIdempotent ==
    [][lastCall'.op = "close" =>
        /\ handle' = None
        /\ ~TSocket_isOpen(handle')
        /\ IF handle = None
           THEN lastCall'.calls = <<>> /\ socks' = socks
           ELSE /\ Len(lastCall'.calls) = 1
                /\ lastCall'.calls[1].op = "close"
                /\ lastCall'.calls[1].sz = handle[1]
                /\ ~socks[handle[1]].closed
                /\ socks' = [socks EXCEPT ![handle[1]].closed = TRUE]]_vars

\* A close() that called nothing, on a transport whose sockets are all closed.
C13_Witness ==
    /\ lastCall.op = "close"
    /\ lastCall.calls = <<>>
    /\ handle = None
    /\ socks # <<>>
    /\ \A i \in DOMAIN socks : socks[i].closed

\* The platforms on which a reset stands for the peer's shutdown.
ResetMeansShutdown(plat) == plat = darwin \/ startswith(plat, freebsd)
\* The error the recv call of a read raised.
RecvError(call) == call.calls[1].exc
\* The call is a read whose recv call raised.
RecvRaised(call) ==
    call.op = "read" /\ call.calls # <<>> /\ RecvError(call) # NoExc
\* The exception is the end-of-stream failure of the transport.
IsEndOfFile(e) == e.cls = "TTransportException" /\ e.type = END_OF_FILE

\* C16: a connection reset raised by recv becomes END_OF_FILE only on darwin
\* and on freebsd*; a reset on any other platform, and any other socket error
\* on any platform, is raised by read() as it is, and nothing is returned.
C16_OnlyListedResetIsEndOfFile ==
    RecvRaised(lastCall) =>
        IF RecvError(lastCall).message[1] = "ECONNRESET" /\ ResetMeansShutdown(platform)
        THEN IsEndOfFile(lastCall.exc)
        ELSE lastCall.exc = RecvError(lastCall) /\ lastCall.ret = <<>>

\* A read on linux whose recv was reset: the reset itself is raised.
C16_Witness ==
    /\ platform = linux
    /\ RecvRaised(lastCall)
    /\ RecvError(lastCall) = SocketError("ECONNRESET")
    /\ lastCall.exc = SocketError("ECONNRESET")

\* C17: every socket the transport created is closed or is the one the handle
\* refers to, and after close() every socket it created is closed.
C17_AtMostOneUnclosedSocket ==
    /\ \A i \in DOMAIN socks : socks[i].closed \/ handle = Some(i)
    /\ lastCall.op = "close" => \A i \in DOMAIN socks : socks[i].closed

\* C19: a read that raised END_OF_FILE for a reset has closed the transport
\* (handle None, its socket closed, isOpen() false, any write then raises
\* NOT_OPEN without a send); a read that raised END_OF_FILE for a recv of zero
\* bytes has left the handle and its socket as they were, unclosed.
C19_EndOfFilePathsLeaveDifferentStates ==
    [][(lastCall'.op = "read" /\ IsEndOfFile(lastCall'.exc)) =>
        IF RecvError(lastCall') # NoExc
        THEN /\ handle' = None
             /\ ~TSocket_isOpen(handle')
             /\ socks'[handle[1]].closed
             /\ \A n \in 0..MaxSend :
                    TSocket_write(Bytes(0, n), handle', socks')
                        = {[exc |-> NotOpenOnWrite, calls |-> <<>>]}
        ELSE /\ handle' = handle
             /\ TSocket_isOpen(handle')
             /\ socks' = socks
             /\ ~socks'[handle[1]].closed]_vars

\* A read on darwin whose recv was reset: END_OF_FILE, and the handle is gone.
C19_Witness ==
    /\ platform = darwin
    /\ RecvRaised(lastCall)
    /\ IsEndOfFile(lastCall.exc)
    /\ handle = None

\* The recv calls among calls that returned no byte: the peer has shut down.
ZeroByteRecvs(calls) ==
    {i \in DOMAIN calls :
        calls[i].op = "recv" /\ calls[i].exc = NoExc /\ calls[i].ret = <<>>}

\* C20: readAll(n) on a TSocket never raises readAll's own EOFError: no read
\* it makes returns an empty result, and a recv of zero bytes ends it with the
\* TTransportException END_OF_FILE that read() raised; a readAll that returns
\* has n bytes.
C20_SocketReadAllNeverRaisesEOFError ==
    lastCall.op = "readAll" =>
        /\ lastCall.exc # EOFError
        /\ \A i \in DOMAIN lastCall.calls :
               (lastCall.calls[i].op = "read" /\ lastCall.calls[i].exc = NoExc)
                   => Len(lastCall.calls[i].ret) >= 1
        /\ \A i \in ZeroByteRecvs(lastCall.calls) :
               /\ IsEndOfFile(lastCall.exc)
               /\ lastCall.exc = lastCall.calls[i + 1].exc
               /\ i + 1 = Len(lastCall.calls)
        /\ lastCall.exc = NoExc => Len(lastCall.ret) = lastCall.sz

\* readAll(2) on a TSocket that received one byte and then none.
C20_Witness ==
    /\ lastCall.op = "readAll"
    /\ lastCall.sz = 2
    /\ Len(lastCall.calls) = 4
    /\ Len(lastCall.calls[1].ret) = 1
    /\ ZeroByteRecvs(lastCall.calls) = {3}
    /\ IsEndOfFile(lastCall.exc)

\* The results of the inner calls that returned, joined in call order.
RECURSIVE NewBytes(_)
NewBytes(calls) ==
    IF calls = <<>> THEN <<>>
    ELSE (IF Head(calls).exc = NoExc THEN Head(calls).ret ELSE <<>>)
         \o NewBytes(Tail(calls))

\* C14: a refill(partial, required) that returns installs the buffer it
\* returns; that buffer has its cursor at the start and holds the partial bytes
\* followed by the bytes the inner calls returned, in call order, at least
\* required bytes in all, and nothing of the buffer it replaces.
C14_RefillInstallsPartialThenNewBytes ==
    (lastCall.op = "refill" /\ lastCall.exc = NoExc) =>
        /\ lastCall.ret = Some(rbuf)
        /\ rbuf.pos = 0
        /\ rbuf.data = lastCall.buf \o NewBytes(lastCall.calls)
        /\ Len(rbuf.data) >= lastCall.sz

\* refill of one partial byte and three bytes required, after earlier refills
\* pulled two bytes: the new buffer is the partial byte and two bytes of a
\* readAll.
C14_Witness ==
    /\ lastCall.op = "refill"
    /\ lastCall.exc = NoExc
    /\ lastCall.sz = 3
    /\ Len(lastCall.buf) = 1
    /\ Len(lastCall.calls) = 1
    /\ lastCall.calls[1].op = "readAll"
    /\ Len(rbuf.data) = 3
    /\ Len(pulled) = 4

\* The inner calls of a refill after the first k: none when the bytes at hand
\* (acc of them) reach the size required, else one readAll for what is missing.
ShortfallByReadAll(call, k, acc) ==
    IF acc >= call.sz
    THEN Len(call.calls) = k
    ELSE /\ Len(call.calls) = k + 1
         /\ call.calls[k + 1].op = "readAll"
         /\ call.calls[k + 1].sz = call.sz - acc

\* C15 as stated: every refill first makes one inner read of rbuf_size bytes,
\* whatever the sizes, and then, when that read returned, one readAll for the
\* shortfall if there is one.
C15_RefillAlwaysReadsBlockFirst ==
    lastCall.op = "refill" =>
        /\ lastCall.calls # <<>>
        /\ lastCall.calls[1].op = "read"
        /\ lastCall.calls[1].sz = rbuf_size
        /\ lastCall.calls[1].exc = NoExc =>
               ShortfallByReadAll(lastCall, 1,
                   Len(lastCall.buf) + Len(lastCall.calls[1].ret))

\* C15, amended: a refill whose required size is below rbuf_size first makes
\* one inner read of rbuf_size bytes; a read that raises ends the refill, a
\* read that returns any number of bytes (none included) is followed by one
\* readAll for the shortfall if there is one. A refill whose required size is
\* rbuf_size or more makes no such read: it makes one readAll for the
\* shortfall beyond the partial bytes, if there is one.
C15_RefillReadsBlockFirstWhenBelowBlock ==
    lastCall.op = "refill" =>
        IF lastCall.sz < rbuf_size
        THEN /\ lastCall.calls # <<>>
             /\ lastCall.calls[1].op = "read"
             /\ lastCall.calls[1].sz = rbuf_size
             /\ IF lastCall.calls[1].exc = NoExc
                THEN ShortfallByReadAll(lastCall, 1,
                         Len(lastCall.buf) + Len(lastCall.calls[1].ret))
                ELSE Len(lastCall.calls) = 1 /\ lastCall.exc = lastCall.calls[1].exc
        ELSE ShortfallByReadAll(lastCall, 0, Len(lastCall.buf))

\* A refill for one byte with rbuf_size 2 whose read returned no byte and whose
\* readAll then returned the byte: it returned.
C15_Witness ==
    /\ lastCall.op = "refill"
    /\ lastCall.sz = 1
    /\ rbuf_size = 2
    /\ Len(lastCall.calls) = 2
    /\ lastCall.calls[1].ret = <<>>
    /\ lastCall.calls[1].exc = NoExc
    /\ lastCall.calls[2].sz = 1
    /\ lastCall.exc = NoExc

\* The read buffer, the write buffer, the bytes handed to the inner write and
\* the inner stream are as before the step.
BuffersAndInnerDataUnchanged ==
    rbuf' = rbuf /\ wbuf' = wbuf /\ handed' = handed /\ peer' = peer

\* C18: write(buf) calls nothing on the inner transport and changes only the
\* write buffer, appending buf; open(), close() and isOpen() each make the one
\* inner call of the same name, whose outcome is theirs, and leave both
\* buffers as they were: close() hands no written byte to the inner transport.
C18_WriteAndLifecycleFrame ==
    [][/\ lastCall'.op = "write" =>
            /\ lastCall'.calls = <<>>
            /\ wbuf' = wbuf \o lastCall'.buf
            /\ rbuf' = rbuf /\ handed' = handed /\ peer' = peer
            /\ handle' = handle /\ socks' = socks
       /\ lastCall'.op \in {"open", "close", "isOpen"} =>
            /\ Len(lastCall'.calls) = 1
            /\ lastCall'.calls[1].op = lastCall'.op
            /\ lastCall'.exc = lastCall'.calls[1].exc
            /\ lastCall'.ret = lastCall'.calls[1].ret
            /\ BuffersAndInnerDataUnchanged
       /\ lastCall'.op = "isOpen" =>
            /\ lastCall'.ret = Some(TSocket_isOpen(handle))
            /\ handle' = handle /\ socks' = socks]_vars

\* A close() with written bytes not flushed and bytes unread in the read
\* buffer: the bytes are still in the buffers and none was handed to inner.
C18_Witness ==
    /\ lastCall.op = "close"
    /\ wbuf # <<>>
    /\ Unread(rbuf) # <<>>
    /\ handed = <<>>
    /\ socks # <<>>

====
